---- MODULE Spec2Model ----
(***************************************************************************)
(* Model of BinanceAPIManager (src/binance_api_manager.py): the bounded    *)
(* retry executor, the buy and sell order paths and the fill tracker       *)
(* wait_for_order, run against a nondeterministic exchange.                *)
(*                                                                         *)
(* One behaviour is one top-level call: buy_alt, sell_alt, or retry        *)
(* applied directly to get_currency_balance (an operation of the same      *)
(* class that can legitimately return None).                               *)
(*                                                                         *)
(* Balances, prices and quantities are Python floats, modelled as binary   *)
(* floating point numbers of reduced precision (see the float operators).  *)
(* Python's None is NoneVal where a number is expected.                    *)
(***************************************************************************)
EXTENDS Integers, Sequences, FiniteSets, TLC

\* ------------------------------------------------------------------ bounds
\* cap on the order-status fetches of one wait_for_order call
MaxFetch == 4
\* cap on the limit-buy submissions absorbed by one _buy_alt submission loop
MaxSubmitTries == 1
\* cap on the balance fetches of one sell confirmation loop
MaxBalancePolls == 1

\* step sizes 10^k are taken for k up to MaxStepZeros
MaxStepZeros == 2
\* step sizes 0.0...01 are taken with up to MaxStepDigits decimals
MaxStepDigits == 3
\* quantities given to sell_quantity alone: 0 .. MaxQuantityInput hundredths
MaxQuantityInput == 40
\* significand bits of a float (53 in CPython)
FloatBits == 8
\* floats are kept in units of 2^-FloatMinExp
FloatMinExp == 11

\* --------------------------------------------------------------- constants
\* retry: while attempts < 20
MaxAttempts == 20
\* Python None in a numeric position
NoneVal == -1
\* the exchange reports balances and prices as decimals d / 10^BalScale
BalScale == 1
\* the exchange's MIN_NOTIONAL filter of the pair, in the same decimals
MinNotionalDecimal == 10
CumQuotes == {1, 2}
OrderStatuses == {"NEW", "PARTIALLY_FILLED", "FILLED", "CANCELED", "REJECTED", "EXPIRED"}
StepSizes == { <<"0",".","1","0","0","0","0","0","0","0">>,
               <<"1",".","0","0","0","0","0","0","0","0">>,
               <<"1","0",".","0","0","0","0","0","0","0","0">> }
Kinds == {"buy", "sell", "func"}

\* ------------------------------------------------------------ pure helpers
RECURSIVE Pow10(_)
Pow10(n) == IF n <= 0 THEN 1 ELSE 10 * Pow10(n - 1)

\* str.find: 0-based index of the first occurrence of c, -1 when absent
Find(s, c) ==
  IF \E i \in 1..Len(s) : s[i] = c
  THEN (CHOOSE i \in 1..Len(s) : s[i] = c /\ \A j \in 1..(i - 1) : s[j] # c) - 1
  ELSE -1

\* a variant of line 61 without the offset
get_alt_tick_NoOffset(step_size) ==
  IF Find(step_size, "1") = 0
  THEN 0 - Find(step_size, ".")
  ELSE Find(step_size, "1") - 1

\* get_alt_tick applied to the stepSize string of the LOT_SIZE filter
get_alt_tick(step_size) ==
  IF Find(step_size, "1") = 0
  THEN 1 - Find(step_size, ".")
  ELSE Find(step_size, "1") - 1

\* ---------------------------------------------------------------- floats
\* Python floats are binary floating point numbers, rounded to nearest, ties
\* to even.  The model keeps that arithmetic with a significand of FloatBits
\* bits (53 in CPython) and a smallest exponent of -FloatMinExp: a float is
\* held as its integer number of units of 2^-FloatMinExp.
RECURSIVE Pow2(_)
Pow2(n) == IF n <= 0 THEN 1 ELSE 2 * Pow2(n - 1)

FloatUnit == Pow2(FloatMinExp)

\* number of low bits a non-negative integer q loses to fit the significand
RECURSIVE DropBits(_)
DropBits(q) == IF q < Pow2(FloatBits) THEN 0 ELSE 1 + DropBits(q \div 2)

\* num / den rounded to the nearest integer, ties to even
RoundHalfEven(num, den) ==
  LET q == num \div den
      r == num % den
  IN  IF 2 * r > den \/ (2 * r = den /\ q % 2 = 1) THEN q + 1 ELSE q

\* the float nearest to num / den units
RoundFloat(num, den) ==
  LET s == DropBits(num \div den)
  IN  RoundHalfEven(num, den * Pow2(s)) * Pow2(s)

\* number of factors 2 shared by b and the unit
RECURSIVE TwoFactors(_, _)
TwoFactors(b, k) == IF k = 0 \/ b % 2 = 1 THEN 0 ELSE 1 + TwoFactors(b \div 2, k - 1)

\* float * float and float / float (b > 0); factors 2 shared with the unit
\* are cancelled before the integers are multiplied
FloatMul(a, b) ==
  LET j == TwoFactors(b, FloatMinExp)
  IN  RoundFloat(a * (b \div Pow2(j)), Pow2(FloatMinExp - j))
FloatDiv(a, b) ==
  LET j == TwoFactors(b, FloatMinExp)
  IN  RoundFloat(a * Pow2(FloatMinExp - j), b \div Pow2(j))

\* float(n) for an integer n, and math.floor of a float
FloatOfInt(n) == RoundFloat(n, 1) * FloatUnit
FloatFloor(a) == a \div FloatUnit

\* float("d.ddd"): the decimal d / 10^scale converted to a float
FloatOfDecimal(d, scale) == RoundFloat(d * FloatUnit, Pow10(scale))

\* 10 ** t as a float operand: the int 10^t for t >= 0, else the float 10^t
TenTo(t) == IF t >= 0 THEN FloatOfInt(Pow10(t)) ELSE FloatOfDecimal(1, -t)

\* x * 10 ** t for a float x
TimesTenTo(x, t) == FloatMul(x, TenTo(t))

\* n / float(10 ** t) for an integer n
OverTenTo(n, t) == FloatDiv(FloatOfInt(n), TenTo(t))

\* math.floor(alt_balance * 10 ** alt_tick): the number of ticks sold
FloorTicks(b, t) == FloatFloor(TimesTenTo(b, t))

\* sell_quantity: math.floor(alt_balance * 10 ** t) / float(10 ** t)
sell_quantity(alt_bal, t) == OverTenTo(FloorTicks(alt_bal, t), t)

\* math.floor(crypto_balance * 10 ** alt_tick / ticker_price)
BuyTicks(crypto_bal, price, t) == FloatFloor(FloatDiv(TimesTenTo(crypto_bal, t), price))

\* buy_quantity: math.floor(crypto_balance * 10 ** t / price) / float(10 ** t)
buy_quantity(crypto_bal, price, t) == OverTenTo(BuyTicks(crypto_bal, price, t), t)

\* values the exchange can report, as the floats get_currency_balance,
\* get_market_ticker_price and get_min_notional return
Balances == {FloatOfDecimal(15, BalScale), FloatOfDecimal(123, BalScale)}
Prices == {FloatOfDecimal(20, BalScale), FloatOfDecimal(30, BalScale)}
MinNotional == FloatOfDecimal(MinNotionalDecimal, BalScale)

\* retry: `except Exception` catches every error an operation raises
Catches_OnlyApi(e) == e = "BinanceAPIException"
Catches(e) == TRUE

\* a variant that reports the error of the second failed attempt instead
ShouldLogError_Second(a) == a = 1
\* retry: `if attempts == 0: self.logger.info(e)`
ShouldLogError(a) == a = 0

\* wait_for_order: `while stat[u'status'] != 'FILLED'`
PollAgain_StopOnCanceled(status) == status \notin {"FILLED", "CANCELED"}
PollAgain(status) == status # "FILLED"

\* _sell_alt: `while new_balance >= alt_balance`
BalanceNotSettled_Strict(new_bal, alt_bal) == new_bal > alt_bal
BalanceNotSettled(new_bal, alt_bal) == new_bal >= alt_bal

\* ------------------------------------------------------------------- state
VARIABLES
  kind,           \* which top-level call this behaviour is
  pairKnown,      \* whether the exchange lists the pair (get_symbol_info)
  stepSize,       \* the stepSize string of the pair's LOT_SIZE filter
  pc,             \* position of the call
  attempts,       \* retry: attempts
  calls,          \* number of times retry invoked the operation
  retrySleeps,    \* number of time.sleep(1) executed by retry
  errLogged,      \* errors passed to logger.info(e) by retry
  firstErr,       \* the error raised by the first invocation, if any
  outcome,        \* "running", "returned" or "raised"
  result,         \* value returned to the caller
  nSucc,          \* number of invocations that returned normally
  funcRet,        \* value returned by the last such invocation
  raisedAt,       \* where the error that ended the last invocation was raised
  alt_balance, crypto_balance, order_quantity, order, new_balance,
  stat, statQ,    \* last fetched order status and its cummulativeQuoteQty
  fetches,        \* successful status fetches of the current wait_for_order
  firstFilledAt,  \* index of the first fetch that reported FILLED, else 0
  fetchErr,       \* a status fetch of the current wait_for_order raised
  statLogs,       \* statuses logged by the current wait_for_order
  submitTries,    \* limit-buy submissions that failed inside the loop
  submitted,      \* <<quantity, price>> of the last limit-buy sent, or <<>>
  balancePolls,   \* balance fetches made by the sell confirmation loop
  accepted,       \* orders the exchange accepted during this call
  tlState,        \* TradeLog of the current attempt
  nOrdered, nComplete, \* TradeLogs marked ordered / complete in this call
  tlQuote,        \* value passed to the last set_complete
  delayed,        \* retry slept since the last invocation of the operation ended
  fnIn, fnTick, fnOut, fnOut2  \* argument and results of the functions applied alone

retryVars == <<attempts, calls, retrySleeps, errLogged, firstErr, outcome, result, nSucc, funcRet,
               raisedAt>>
localVars == <<alt_balance, crypto_balance, order_quantity, order, new_balance>>
waitVars == <<stat, statQ, fetches, firstFilledAt, fetchErr, statLogs>>
submitVars == <<submitTries, submitted, balancePolls>>
logVars == <<tlState, nOrdered, nComplete, tlQuote>>
envVars == <<kind, pairKnown, stepSize>>
fnVars == <<fnIn, fnTick, fnOut, fnOut2>>
vars == <<envVars, fnVars, delayed, pc, retryVars, localVars, waitVars, submitVars, accepted,
          logVars>>

Tick == get_alt_tick(stepSize)

Init ==
  /\ kind \in Kinds
  /\ pairKnown \in BOOLEAN
  /\ stepSize \in StepSizes
  /\ pc = "start"
  /\ attempts = 0 /\ calls = 0 /\ retrySleeps = 0
  /\ errLogged = <<>> /\ firstErr = "none"
  /\ outcome = "running" /\ result = NoneVal
  /\ nSucc = 0 /\ funcRet = NoneVal /\ raisedAt = "none"
  /\ alt_balance = NoneVal /\ crypto_balance = NoneVal
  /\ order_quantity = NoneVal /\ order = NoneVal /\ new_balance = NoneVal
  /\ stat = "NONE" /\ statQ = NoneVal
  /\ fetches = 0 /\ firstFilledAt = 0 /\ fetchErr = FALSE /\ statLogs = 0
  /\ submitTries = 0 /\ submitted = <<>> /\ balancePolls = 0
  /\ accepted = 0
  /\ tlState = "none" /\ nOrdered = 0 /\ nComplete = 0 /\ tlQuote = NoneVal
  /\ delayed = FALSE
  /\ fnIn = NoneVal /\ fnTick = 0 /\ fnOut = NoneVal /\ fnOut2 = NoneVal

\* the frame of one invocation is discarded
ResetLocals ==
  /\ alt_balance' = NoneVal /\ crypto_balance' = NoneVal
  /\ order_quantity' = NoneVal /\ order' = NoneVal /\ new_balance' = NoneVal
  /\ stat' = "NONE" /\ statQ' = NoneVal
  /\ fetches' = 0 /\ firstFilledAt' = 0 /\ fetchErr' = FALSE /\ statLogs' = 0
  /\ submitTries' = 0 /\ submitted' = <<>> /\ balancePolls' = 0

\* ------------------------------------------------------------------- retry
\* retry, line 42: time.sleep(1); attempts = 0
RetrySleep ==
  /\ pc = "start"
  /\ retrySleeps' = retrySleeps + 1
  /\ delayed' = TRUE
  /\ pc' = "retry_loop"
  /\ UNCHANGED <<envVars, fnVars, attempts, calls, errLogged, firstErr, outcome, result,
                 nSucc, funcRet, raisedAt, localVars, waitVars, submitVars, accepted, logVars>>

\* retry, lines 44-46: the loop test holds and the operation is invoked;
\* _buy_alt / _sell_alt start by creating their TradeLog
RetryCall ==
  /\ pc = "retry_loop"
  /\ attempts < MaxAttempts
  /\ calls' = calls + 1
  /\ pc' = CASE kind = "buy" -> "b_alt" [] kind = "sell" -> "s_alt" [] OTHER -> "f_call"
  /\ tlState' = IF kind = "func" THEN "none" ELSE "created"
  /\ raisedAt' = "none"
  /\ UNCHANGED <<envVars, fnVars, delayed, attempts, retrySleeps, errLogged, firstErr, outcome, result,
                 nSucc, funcRet, localVars, waitVars, submitVars, accepted,
                 nOrdered, nComplete, tlQuote>>

\* a variant of line 52 that raises once the bound is exhausted
RetryExhausted_Raises ==
  /\ pc = "retry_loop"
  /\ ~(attempts < MaxAttempts)
  /\ outcome' = "raised"
  /\ result' = NoneVal
  /\ pc' = "done"
  /\ UNCHANGED <<envVars, fnVars, delayed, attempts, calls, retrySleeps, errLogged, firstErr,
                 nSucc, funcRet, raisedAt, localVars, waitVars, submitVars, accepted, logVars>>

\* retry, line 52: the loop test fails, return None
RetryExhausted ==
  /\ pc = "retry_loop"
  /\ ~(attempts < MaxAttempts)
  /\ outcome' = "returned"
  /\ result' = NoneVal
  /\ pc' = "done"
  /\ UNCHANGED <<envVars, fnVars, delayed, attempts, calls, retrySleeps, errLogged, firstErr,
                 nSucc, funcRet, raisedAt, localVars, waitVars, submitVars, accepted, logVars>>

\* retry, lines 47-51: the operation raised e
RetryExcept(e) ==
  /\ firstErr' = IF calls = 1 THEN e ELSE firstErr
  /\ raisedAt' = pc
  /\ IF Catches(e)
     THEN /\ errLogged' = IF ShouldLogError(attempts) THEN Append(errLogged, e) ELSE errLogged
          /\ attempts' = attempts + 1
          /\ pc' = "retry_loop"
          /\ outcome' = outcome
     ELSE /\ outcome' = "raised"
          /\ pc' = "done"
          /\ UNCHANGED <<errLogged, attempts>>
  /\ ResetLocals
  /\ tlState' = "none"
  /\ delayed' = FALSE
  /\ UNCHANGED <<envVars, fnVars, calls, retrySleeps, result, nSucc, funcRet, accepted,
                 nOrdered, nComplete, tlQuote>>

\* a variant of line 46 that drops the value and goes round the loop again
RetryReturn_KeepLooping(v) ==
  /\ nSucc' = nSucc + 1
  /\ funcRet' = v
  /\ attempts' = attempts + 1
  /\ pc' = "retry_loop"
  /\ UNCHANGED <<outcome, result, raisedAt>>

\* retry, line 46: `return func(*args, **kwargs)` when the operation returned v
RetryReturn(v) ==
  /\ nSucc' = nSucc + 1
  /\ funcRet' = v
  /\ outcome' = "returned"
  /\ result' = v
  /\ pc' = "done"
  /\ UNCHANGED <<attempts, raisedAt>>

\* ------------------------------------------------- retry(get_currency_balance)
\* get_currency_balance, lines 36-39, as the operation: get_account raises
FuncRaise ==
  /\ pc = "f_call"
  /\ RetryExcept("BinanceAPIException")

\* get_currency_balance returns the free balance, or None for an unknown asset
FuncReturn ==
  /\ pc = "f_call"
  /\ \E v \in Balances \cup {NoneVal} : RetryReturn(v)
  /\ UNCHANGED <<envVars, fnVars, delayed, calls, retrySleeps, errLogged, firstErr,
                 localVars, waitVars, submitVars, accepted, logVars>>

\* ---------------------------------------------------------- wait_for_order
\* wait_for_order, lines 77-86: the first get_order raises; the error is
\* logged and the fetch is repeated
WaitInitialFetchError ==
  /\ pc = "w_init"
  /\ fetchErr' = TRUE
  /\ UNCHANGED <<envVars, fnVars, delayed, pc, retryVars, localVars, stat, statQ, fetches, firstFilledAt,
                 statLogs, submitVars, accepted, logVars>>

\* a variant of lines 79-81 that drops the first status, so that the polling
\* loop always fetches at least once more
WaitInitialFetch_Dropped ==
  /\ pc = "w_init"
  /\ \E s \in OrderStatuses :
       firstFilledAt' = IF s = "FILLED" THEN fetches + 1 ELSE 0
  /\ fetches' = fetches + 1
  /\ statLogs' = statLogs + 1
  /\ pc' = "w_poll"
  /\ UNCHANGED <<envVars, fnVars, delayed, retryVars, localVars, stat, statQ, fetchErr, submitVars,
                 accepted, logVars>>

\* wait_for_order, lines 79-81 and 88: the first get_order returns a status,
\* which is logged
WaitInitialFetch ==
  /\ pc = "w_init"
  /\ \E s \in OrderStatuses, q \in CumQuotes :
       /\ stat' = s
       /\ statQ' = q
       /\ firstFilledAt' = IF s = "FILLED" THEN fetches + 1 ELSE 0
  /\ fetches' = fetches + 1
  /\ statLogs' = statLogs + 1
  /\ pc' = "w_poll"
  /\ UNCHANGED <<envVars, fnVars, delayed, retryVars, localVars, fetchErr, submitVars, accepted, logVars>>

\* wait_for_order, lines 90-99: a polling get_order raises; logged, polled again
WaitPollError ==
  /\ pc = "w_poll"
  /\ PollAgain(stat)
  /\ fetchErr' = TRUE
  /\ UNCHANGED <<envVars, fnVars, delayed, pc, retryVars, localVars, stat, statQ, fetches, firstFilledAt,
                 statLogs, submitVars, accepted, logVars>>

\* a variant of lines 92-93 that logs every polled status
WaitPoll_Logged ==
  /\ pc = "w_poll"
  /\ PollAgain(stat)
  /\ \E s \in OrderStatuses, q \in CumQuotes :
       /\ s = "FILLED" \/ fetches + 1 < MaxFetch
       /\ stat' = s
       /\ statQ' = q
       /\ firstFilledAt' = IF s = "FILLED" /\ firstFilledAt = 0 THEN fetches + 1
                           ELSE firstFilledAt
  /\ fetches' = fetches + 1
  /\ statLogs' = statLogs + 1
  /\ UNCHANGED <<envVars, fnVars, delayed, pc, retryVars, localVars, fetchErr,
                 submitVars, accepted, logVars>>

\* a variant of lines 92-93 that does not keep the polled status
WaitPoll_StatDropped ==
  /\ pc = "w_poll"
  /\ PollAgain(stat)
  /\ fetches < MaxFetch
  /\ fetches' = fetches + 1
  /\ UNCHANGED <<envVars, fnVars, delayed, pc, retryVars, localVars, stat, statQ, firstFilledAt,
                 fetchErr, statLogs, submitVars, accepted, logVars>>

\* wait_for_order, lines 90-94: a polling get_order returns a status; the
\* cap MaxFetch limits the answers other than FILLED
WaitPoll ==
  /\ pc = "w_poll"
  /\ PollAgain(stat)
  /\ \E s \in OrderStatuses, q \in CumQuotes :
       /\ s = "FILLED" \/ fetches + 1 < MaxFetch
       /\ stat' = s
       /\ statQ' = q
       /\ firstFilledAt' = IF s = "FILLED" /\ firstFilledAt = 0 THEN fetches + 1
                           ELSE firstFilledAt
  /\ fetches' = fetches + 1
  /\ UNCHANGED <<envVars, fnVars, delayed, pc, retryVars, localVars, fetchErr, statLogs,
                 submitVars, accepted, logVars>>

\* wait_for_order, lines 90 and 101: the loop test fails, return stat
WaitReturn ==
  /\ pc = "w_poll"
  /\ ~PollAgain(stat)
  /\ pc' = IF kind = "buy" THEN "b_complete" ELSE "s_newbal"
  /\ UNCHANGED <<envVars, fnVars, delayed, retryVars, localVars, waitVars, submitVars, accepted, logVars>>

\* ---------------------------------------------------------------- _buy_alt
\* _buy_alt, line 114: get_currency_balance(alt_symbol) raises
BuyFetchAltBalanceError ==
  /\ pc = "b_alt"
  /\ RetryExcept("BinanceAPIException")

\* _buy_alt, line 114: the alt balance, None when the asset is not listed
BuyFetchAltBalance ==
  /\ pc = "b_alt"
  /\ alt_balance' \in Balances \cup {NoneVal}
  /\ pc' = "b_crypto"
  /\ UNCHANGED <<envVars, fnVars, delayed, retryVars, crypto_balance, order_quantity, order, new_balance,
                 waitVars, submitVars, accepted, logVars>>

\* _buy_alt, line 115: get_currency_balance(crypto_symbol) raises
BuyFetchCryptoBalanceError ==
  /\ pc = "b_crypto"
  /\ RetryExcept("BinanceAPIException")

\* _buy_alt, line 115
BuyFetchCryptoBalance ==
  /\ pc = "b_crypto"
  /\ crypto_balance' \in Balances \cup {NoneVal}
  /\ pc' = "b_qty"
  /\ UNCHANGED <<envVars, fnVars, delayed, retryVars, alt_balance, order_quantity, order, new_balance,
                 waitVars, submitVars, accepted, logVars>>

\* _buy_alt, lines 117-118: the ticker fetch or the symbol-filter fetch raises
BuyQuantityApiError ==
  /\ pc = "b_qty"
  /\ RetryExcept("BinanceAPIException")

\* _buy_alt, lines 117-118: for a pair the exchange does not list the ticker
\* price is None and get_symbol_info gives None, which get_symbol_filter
\* subscripts; or the quote balance is None
BuyQuantityTypeError ==
  /\ pc = "b_qty"
  /\ ~pairKnown \/ crypto_balance = NoneVal
  /\ RetryExcept("TypeError")

\* _buy_alt, lines 117-119: the quantity is computed at the price fetched now
BuyQuantity ==
  /\ pc = "b_qty"
  /\ pairKnown
  /\ crypto_balance # NoneVal
  /\ \E price \in Prices : order_quantity' = buy_quantity(crypto_balance, price, Tick)
  /\ pc' = "b_submit"
  /\ UNCHANGED <<envVars, fnVars, delayed, retryVars, alt_balance, crypto_balance, order, new_balance,
                 waitVars, submitVars, accepted, logVars>>

\* a variant of lines 124-135 without the try: the error leaves _buy_alt
BuySubmitError_Propagates ==
  /\ pc = "b_submit"
  /\ RetryExcept("BinanceAPIException")

\* _buy_alt, lines 124-135: the price fetch of this submission raises, or the
\* exchange refuses the order sent at `price`; the error is logged and the
\* loop goes round again
BuySubmitError ==
  /\ pc = "b_submit"
  /\ submitTries < MaxSubmitTries
  /\ submitTries' = submitTries + 1
  /\ \/ UNCHANGED submitted
     \/ \E price \in Prices : submitted' = <<order_quantity, price>>
  /\ UNCHANGED <<envVars, fnVars, delayed, pc, retryVars, localVars, waitVars, balancePolls, accepted, logVars>>

\* _buy_alt, lines 125-130: order_limit_buy returns an order
BuySubmit ==
  /\ pc = "b_submit"
  /\ \E price \in Prices : submitted' = <<order_quantity, price>>
  /\ accepted' = accepted + 1
  /\ order' = accepted + 1
  /\ pc' = "b_ordered"
  /\ UNCHANGED <<envVars, fnVars, delayed, retryVars, alt_balance, crypto_balance, order_quantity, new_balance,
                 waitVars, submitTries, balancePolls, logVars>>

\* _buy_alt, lines 137-139: trade_log.set_ordered, then wait_for_order is entered
BuySetOrdered ==
  /\ pc = "b_ordered"
  /\ tlState' = "ordered"
  /\ nOrdered' = nOrdered + 1
  /\ pc' = "w_init"
  /\ UNCHANGED <<envVars, fnVars, delayed, retryVars, localVars, waitVars, submitVars, accepted,
                 nComplete, tlQuote>>

\* a variant of line 143 that records the ordered quantity
BuyComplete_RecordsQuantity ==
  /\ pc = "b_complete"
  /\ tlState' = "complete"
  /\ nComplete' = nComplete + 1
  /\ tlQuote' = order_quantity
  /\ RetryReturn(order)
  /\ UNCHANGED <<envVars, fnVars, delayed, calls, retrySleeps, errLogged, firstErr,
                 localVars, waitVars, submitVars, accepted, nOrdered>>

\* _buy_alt, lines 141-145: trade_log.set_complete(stat["cummulativeQuoteQty"])
\* and return order
BuyComplete ==
  /\ pc = "b_complete"
  /\ tlState' = "complete"
  /\ nComplete' = nComplete + 1
  /\ tlQuote' = statQ
  /\ RetryReturn(order)
  /\ UNCHANGED <<envVars, fnVars, delayed, calls, retrySleeps, errLogged, firstErr,
                 localVars, waitVars, submitVars, accepted, nOrdered>>

\* --------------------------------------------------------------- _sell_alt
\* _sell_alt, line 158: get_currency_balance(alt_symbol) raises
SellFetchAltBalanceError ==
  /\ pc = "s_alt"
  /\ RetryExcept("BinanceAPIException")

\* _sell_alt, line 158
SellFetchAltBalance ==
  /\ pc = "s_alt"
  /\ alt_balance' \in Balances \cup {NoneVal}
  /\ pc' = "s_crypto"
  /\ UNCHANGED <<envVars, fnVars, delayed, retryVars, crypto_balance, order_quantity, order, new_balance,
                 waitVars, submitVars, accepted, logVars>>

\* _sell_alt, line 159: get_currency_balance(crypto_symbol) raises
SellFetchCryptoBalanceError ==
  /\ pc = "s_crypto"
  /\ RetryExcept("BinanceAPIException")

\* _sell_alt, line 159
SellFetchCryptoBalance ==
  /\ pc = "s_crypto"
  /\ crypto_balance' \in Balances \cup {NoneVal}
  /\ pc' = "s_qty"
  /\ UNCHANGED <<envVars, fnVars, delayed, retryVars, alt_balance, order_quantity, order, new_balance,
                 waitVars, submitVars, accepted, logVars>>

\* _sell_alt, line 161: the symbol-filter fetch raises
SellQuantityApiError ==
  /\ pc = "s_qty"
  /\ RetryExcept("BinanceAPIException")

\* _sell_alt, line 161: None subscripted for an unknown pair, or the alt
\* balance is None
SellQuantityTypeError ==
  /\ pc = "s_qty"
  /\ ~pairKnown \/ alt_balance = NoneVal
  /\ RetryExcept("TypeError")

\* _sell_alt, lines 161-164
SellQuantity ==
  /\ pc = "s_qty"
  /\ pairKnown
  /\ alt_balance # NoneVal
  /\ order_quantity' = sell_quantity(alt_balance, Tick)
  /\ pc' = "s_submit"
  /\ UNCHANGED <<envVars, fnVars, delayed, retryVars, alt_balance, crypto_balance, order, new_balance,
                 waitVars, submitVars, accepted, logVars>>

\* a variant of lines 166-169 that catches the error inside the loop, as
\* _buy_alt does
SellSubmitError_Absorbed ==
  /\ pc = "s_submit"
  /\ submitTries < MaxSubmitTries
  /\ submitTries' = submitTries + 1
  /\ UNCHANGED <<envVars, fnVars, delayed, pc, retryVars, localVars, waitVars, submitted, balancePolls,
                 accepted, logVars>>

\* _sell_alt, lines 166-169: order_market_sell raises; nothing in the loop
\* catches it, so it leaves _sell_alt
SellSubmitError ==
  /\ pc = "s_submit"
  /\ RetryExcept("BinanceAPIException")

\* _sell_alt, lines 166-172: order_market_sell returns an order
SellSubmit ==
  /\ pc = "s_submit"
  /\ accepted' = accepted + 1
  /\ order' = accepted + 1
  /\ pc' = "s_ordered"
  /\ UNCHANGED <<envVars, fnVars, delayed, retryVars, alt_balance, crypto_balance, order_quantity, new_balance,
                 waitVars, submitVars, logVars>>

\* _sell_alt, lines 174-180: trade_log.set_ordered, time.sleep(5), then
\* wait_for_order is entered
SellSetOrdered ==
  /\ pc = "s_ordered"
  /\ tlState' = "ordered"
  /\ nOrdered' = nOrdered + 1
  /\ pc' = "w_init"
  /\ UNCHANGED <<envVars, fnVars, delayed, retryVars, localVars, waitVars, submitVars, accepted,
                 nComplete, tlQuote>>

\* _sell_alt, line 182: get_currency_balance(alt_symbol) raises
SellFetchNewBalanceError ==
  /\ pc = "s_newbal"
  /\ RetryExcept("BinanceAPIException")

\* _sell_alt, line 182
SellFetchNewBalance ==
  /\ pc = "s_newbal"
  /\ new_balance' \in Balances \cup {NoneVal}
  /\ pc' = "s_balloop"
  /\ UNCHANGED <<envVars, fnVars, delayed, retryVars, alt_balance, crypto_balance, order_quantity, order,
                 waitVars, submitVars, accepted, logVars>>

\* _sell_alt, line 183: `None >= alt_balance` raises TypeError
SellBalanceTypeError ==
  /\ pc = "s_balloop"
  /\ new_balance = NoneVal
  /\ RetryExcept("TypeError")

\* _sell_alt, line 184: the balance is not yet lower and the next fetch raises
SellBalancePollError ==
  /\ pc = "s_balloop"
  /\ new_balance # NoneVal
  /\ BalanceNotSettled(new_balance, alt_balance)
  /\ RetryExcept("BinanceAPIException")

\* _sell_alt, lines 183-184: the balance is not yet lower; fetch it again
SellBalancePoll ==
  /\ pc = "s_balloop"
  /\ new_balance # NoneVal
  /\ BalanceNotSettled(new_balance, alt_balance)
  /\ balancePolls < MaxBalancePolls
  /\ balancePolls' = balancePolls + 1
  /\ new_balance' \in Balances \cup {NoneVal}
  /\ UNCHANGED <<envVars, fnVars, delayed, pc, retryVars, alt_balance, crypto_balance, order_quantity, order,
                 waitVars, submitTries, submitted, accepted, logVars>>

\* _sell_alt, lines 183 and 186-190: the loop test fails;
\* trade_log.set_complete(stat["cummulativeQuoteQty"]) and return order
SellComplete ==
  /\ pc = "s_balloop"
  /\ new_balance # NoneVal
  /\ ~BalanceNotSettled(new_balance, alt_balance)
  /\ tlState' = "complete"
  /\ nComplete' = nComplete + 1
  /\ tlQuote' = statQ
  /\ RetryReturn(order)
  /\ UNCHANGED <<envVars, fnVars, delayed, calls, retrySleeps, errLogged, firstErr,
                 localVars, waitVars, submitVars, accepted, nOrdered>>

Next ==
  \/ RetrySleep
  \/ RetryCall
  \/ RetryExhausted
  \/ FuncRaise
  \/ FuncReturn
  \/ WaitInitialFetchError
  \/ WaitInitialFetch
  \/ WaitPollError
  \/ WaitPoll
  \/ WaitReturn
  \/ BuyFetchAltBalanceError
  \/ BuyFetchAltBalance
  \/ BuyFetchCryptoBalanceError
  \/ BuyFetchCryptoBalance
  \/ BuyQuantityApiError
  \/ BuyQuantityTypeError
  \/ BuyQuantity
  \/ BuySubmitError
  \/ BuySubmit
  \/ BuySetOrdered
  \/ BuyComplete
  \/ SellFetchAltBalanceError
  \/ SellFetchAltBalance
  \/ SellFetchCryptoBalanceError
  \/ SellFetchCryptoBalance
  \/ SellQuantityApiError
  \/ SellQuantityTypeError
  \/ SellQuantity
  \/ SellSubmitError
  \/ SellSubmit
  \/ SellSetOrdered
  \/ SellFetchNewBalanceError
  \/ SellFetchNewBalance
  \/ SellBalanceTypeError
  \/ SellBalancePollError
  \/ SellBalancePoll
  \/ SellComplete

Spec == Init /\ [][Next]_vars

\* ------------------------------------------ wait_for_order under fairness
\* the states in which the first invocation of _buy_alt / _sell_alt enters
\* wait_for_order (after BuySetOrdered / SellSetOrdered)
WaitInit ==
  /\ kind \in {"buy", "sell"}
  /\ pairKnown = TRUE
  /\ stepSize \in StepSizes
  /\ pc = "w_init"
  /\ attempts = 0 /\ calls = 1 /\ retrySleeps = 1
  /\ errLogged = <<>> /\ firstErr = "none"
  /\ outcome = "running" /\ result = NoneVal
  /\ nSucc = 0 /\ funcRet = NoneVal /\ raisedAt = "none"
  /\ alt_balance \in Balances /\ crypto_balance \in Balances
  /\ \E price \in Prices :
       /\ order_quantity = IF kind = "buy" THEN buy_quantity(crypto_balance, price, Tick)
                           ELSE sell_quantity(alt_balance, Tick)
       /\ submitted = IF kind = "buy" THEN <<order_quantity, price>> ELSE <<>>
  /\ order = 1 /\ new_balance = NoneVal
  /\ stat = "NONE" /\ statQ = NoneVal
  /\ fetches = 0 /\ firstFilledAt = 0 /\ fetchErr = FALSE /\ statLogs = 0
  /\ submitTries = 0 /\ balancePolls = 0
  /\ accepted = 1
  /\ tlState = "ordered" /\ nOrdered = 1 /\ nComplete = 0 /\ tlQuote = NoneVal
  /\ delayed = TRUE
  /\ fnIn = NoneVal /\ fnTick = 0 /\ fnOut = NoneVal /\ fnOut2 = NoneVal

WaitNext ==
  \/ WaitInitialFetchError
  \/ WaitInitialFetch
  \/ WaitPollError
  \/ WaitPoll
  \/ WaitReturn

\* a polling fetch that reports FILLED
WaitPollFilled == WaitPoll /\ stat' = "FILLED"

\* status fetches eventually succeed, the order is eventually reported
\* FILLED, and the sequential code goes on when it can
WaitSpec ==
  /\ WaitInit
  /\ [][WaitNext]_vars
  /\ WF_vars(WaitInitialFetch)
  /\ WF_vars(WaitPollFilled)
  /\ WF_vars(WaitReturn)

\* ------------------------------------- get_alt_tick and sell_quantity alone
Zeros(n) == [i \in 1..n |-> "0"]
\* "1" followed by k zeros, a decimal point and pad zeros
TenPowerStep(k, pad) == <<"1">> \o Zeros(k) \o <<".">> \o Zeros(pad)
\* "0." followed by d decimals of which the last is the only "1", then pad zeros
FractionStep(d, pad) == <<"0", ".">> \o Zeros(d - 1) \o <<"1">> \o Zeros(pad)

\* step sizes as the claim writes them and as the exchange sends them
\* (8 decimals)
StepFamily ==
  {TenPowerStep(k, pad) : k \in 0..MaxStepZeros, pad \in {0, 8}}
    \cup {FractionStep(d, 0) : d \in 1..MaxStepDigits}
    \cup {FractionStep(d, 8 - d) : d \in 1..MaxStepDigits}

QuantityInputs == {FloatOfDecimal(d, 2) : d \in 0..MaxQuantityInput}

FnInit ==
  /\ kind = "fn"
  /\ pairKnown = TRUE
  /\ stepSize \in StepFamily
  /\ fnIn \in QuantityInputs
  /\ fnTick = 0 /\ fnOut = NoneVal /\ fnOut2 = NoneVal
  /\ pc = "fn_tick"
  /\ attempts = 0 /\ calls = 0 /\ retrySleeps = 0
  /\ errLogged = <<>> /\ firstErr = "none"
  /\ outcome = "running" /\ result = NoneVal
  /\ nSucc = 0 /\ funcRet = NoneVal /\ raisedAt = "none"
  /\ alt_balance = NoneVal /\ crypto_balance = NoneVal
  /\ order_quantity = NoneVal /\ order = NoneVal /\ new_balance = NoneVal
  /\ stat = "NONE" /\ statQ = NoneVal
  /\ fetches = 0 /\ firstFilledAt = 0 /\ fetchErr = FALSE /\ statLogs = 0
  /\ submitTries = 0 /\ submitted = <<>> /\ balancePolls = 0
  /\ accepted = 0
  /\ tlState = "none" /\ nOrdered = 0 /\ nComplete = 0 /\ tlQuote = NoneVal
  /\ delayed = FALSE

fnFrame == <<envVars, delayed, retryVars, localVars, waitVars, submitVars, accepted, logVars>>

\* get_alt_tick, lines 58-63, on the step size of the pair
ApplyGetAltTick ==
  /\ pc = "fn_tick"
  /\ fnTick' = get_alt_tick(stepSize)
  /\ pc' = "fn_sell"
  /\ UNCHANGED <<fnFrame, fnIn, fnOut, fnOut2>>

\* sell_quantity, lines 68-70, on the given balance
ApplySellQuantity ==
  /\ pc = "fn_sell"
  /\ fnOut' = sell_quantity(fnIn, fnTick)
  /\ pc' = "fn_again"
  /\ UNCHANGED <<fnFrame, fnIn, fnTick, fnOut2>>

\* sell_quantity, lines 68-70, on its own result
ApplySellQuantityAgain ==
  /\ pc = "fn_again"
  /\ fnOut2' = sell_quantity(fnOut, fnTick)
  /\ pc' = "fn_done"
  /\ UNCHANGED <<fnFrame, fnIn, fnTick, fnOut>>

FnNext ==
  \/ ApplyGetAltTick
  \/ ApplySellQuantity
  \/ ApplySellQuantityAgain

FnSpec == FnInit /\ [][FnNext]_vars

\* ============================================================= properties
Trade == kind \in {"buy", "sell"}

\* wait_for_order has returned to the trade body that called it
AfterWait ==
  \/ pc \in {"b_complete", "s_newbal", "s_balloop"}
  \/ pc = "done" /\ Trade /\ nSucc >= 1

\* the quantity q bought at price p costs no more than the balance cb
\* (all three floats, compared exactly)
CostWithin(q, p, cb) == q * p <= cb * FloatUnit

\* C1: during one buy_alt or sell_alt call the exchange accepts at most one
\* order, whatever exchange calls raise.
C1_NoDoubleSubmission == accepted <= 1

\* C2: when every invocation of the operation fails, retry has invoked it
\* exactly 20 times, returns None, and has logged exactly one error, the one
\* raised by the first invocation.
C2_AlwaysFailing ==
  (pc = "done" /\ nSucc = 0) =>
    /\ calls = 20
    /\ attempts = 20
    /\ outcome = "returned"
    /\ result = NoneVal
    /\ firstErr # "none"
    /\ errLogged = <<firstErr>>

C2_Witness == pc = "done" /\ nSucc = 0 /\ calls = 20 /\ Len(errLogged) = 1

\* C3: when the operation fails k-1 times and then succeeds (1 <= k <= 20),
\* retry returns that invocation's value and has invoked the operation
\* exactly k times; nothing is invoked after the first success.
C3_SuccessOnKth ==
  nSucc >= 1 =>
    /\ nSucc = 1
    /\ pc = "done"
    /\ outcome = "returned"
    /\ result = funcRet
    /\ calls = attempts + 1
    /\ calls \in 1..20

C3_Witness == nSucc = 1 /\ calls = 3 /\ pc = "done" /\ result # NoneVal

\* C4 as stated: retry never raises, and it returns None if and only if all
\* 20 attempts failed.
C4_Original ==
  pc = "done" =>
    /\ outcome = "returned"
    /\ (result = NoneVal <=> attempts = 20)

\* C4: retry never raises; it returns None whenever all 20 attempts failed,
\* and for buy_alt and sell_alt (whose bodies return the order, never None)
\* it returns None only then.
C4_NoPropagation ==
  pc = "done" =>
    /\ outcome = "returned"
    /\ (attempts = 20 <=> nSucc = 0)
    /\ (attempts = 20 => result = NoneVal)
    /\ (Trade => (result = NoneVal <=> attempts = 20))

C4_Witness == pc = "done" /\ Trade /\ result = NoneVal /\ firstErr = "TypeError"

\* C5: without fetch errors, wait_for_order returns after exactly n status
\* fetches, where the n-th fetch is the first to report FILLED, and returns
\* that status.
C5_FetchCount ==
  (AfterWait /\ ~fetchErr) =>
    /\ fetches >= 1
    /\ fetches = firstFilledAt
    /\ stat = "FILLED"

C5_Witness == pc = "b_complete" /\ ~fetchErr /\ fetches = 4 /\ firstFilledAt = 4

\* C6: wait_for_order is left only by returning, and only when the status
\* fetched last is FILLED; any other status and any fetch error keep it
\* fetching.
C6_OnlyFilledReturns ==
  [][ (pc \in {"w_init", "w_poll"} /\ pc' \notin {"w_init", "w_poll"}) =>
        /\ pc = "w_poll"
        /\ stat = "FILLED"
        /\ stat' = "FILLED"
        /\ pc' \in {"b_complete", "s_newbal"}
        /\ outcome' = "running"
        /\ attempts' = attempts ]_vars

C6_Witness == pc \in {"b_complete", "s_newbal"} /\ fetchErr /\ fetches = 3

\* C7: a sell is completed (set_complete, order returned) only after the
\* order was reported FILLED and an alt-balance fetch returned less than the
\* balance recorded before the sell.
C7_SellCompletion ==
  (kind = "sell" /\ (tlState = "complete" \/ nComplete > 0 \/ nSucc > 0)) =>
    /\ stat = "FILLED"
    /\ new_balance # NoneVal
    /\ new_balance < alt_balance
    /\ tlState = "complete"
    /\ result = order

C7_Witness == kind = "sell" /\ tlState = "complete" /\ balancePolls = 1

\* C8 as stated: the sell path never ends with the no-result outcome.
C8_Original == ~(kind = "sell" /\ pc = "done" /\ outcome = "returned" /\ result = NoneVal)

\* C8: an error raised by the market-sell submission is not retried in place:
\* it ends the invocation and uses up one attempt of retry, and sell_alt
\* returns None once 20 attempts have failed.
C8_SellBounded ==
  /\ [][ (pc = "s_submit" /\ accepted' = accepted) =>
           (attempts' = attempts + 1 /\ pc' = "retry_loop") ]_vars
  /\ []((kind = "sell" /\ attempts = 20 /\ pc = "done") =>
           (outcome = "returned" /\ result = NoneVal))

C8_Witness ==
  kind = "sell" /\ pc = "done" /\ result = NoneVal /\ raisedAt = "s_submit" /\ accepted = 0

\* C9 as stated: when the pair is unknown, the failed symbol-filter lookup is
\* surfaced after a single invocation of the trade body.
C9_Original ==
  (Trade /\ ~pairKnown /\ firstErr = "TypeError") =>
    (calls = 1 /\ pc = "done" /\ outcome = "raised")

\* C9: when the pair is unknown, the lookup's error is caught by retry like
\* any other: the body is invoked again until 20 attempts have failed, no
\* order is submitted, and None is returned without raising.
C9_UnknownPairRetried ==
  (Trade /\ ~pairKnown) =>
    /\ accepted = 0
    /\ outcome # "raised"
    /\ (pc = "done" => (result = NoneVal /\ calls = 20 /\ attempts = 20))

C9_Witness ==
  Trade /\ ~pairKnown /\ pc = "done" /\ firstErr = "TypeError" /\ raisedAt \in {"b_qty", "s_qty"}

\* C10: every limit-buy order sent by _buy_alt costs (quantity x the price
\* sent with it) no more than the quote balance fetched by that invocation.
C10_CostWithinBalance ==
  (kind = "buy" /\ submitted # <<>>) =>
    CostWithin(submitted[1], submitted[2], crypto_balance)

\* the float q is some whole number of ticks n / float(10 ** t)
IsTickMultiple(q, t) == \E n \in 0..200 : q = OverTenTo(n, t)

\* quantity q at price p is worth at least the pair's minimum notional
NotionalMet(q, p) == q * p >= MinNotional * FloatUnit

\* C11: every order sent to the exchange, by the buy or by the sell path, has
\* a quantity that is a multiple of the step size and a notional value
\* (quantity x price) of at least the pair's minimum notional.
C11_LegalOrders ==
  /\ (kind = "buy" /\ submitted # <<>>) =>
       (IsTickMultiple(submitted[1], Tick) /\ NotionalMet(submitted[1], submitted[2]))
  /\ (kind = "sell" /\ order # NoneVal) =>
       (IsTickMultiple(order_quantity, Tick) /\ \E p \in Prices : NotionalMet(order_quantity, p))

\* floor(x * 10^t) for the float x, computed exactly
ExactFloorTicks(x, t) ==
  IF t >= 0 THEN (x * Pow10(t)) \div FloatUnit
  ELSE x \div (FloatUnit * Pow10(-t))

\* C12: for every non-negative balance and every tick exponent, sell_quantity
\* returns floor(balance x 10^t) / 10^t, which is at most the balance and
\* non-negative.
C12_FloorContract ==
  pc \in {"fn_again", "fn_done"} =>
    /\ fnOut = OverTenTo(ExactFloorTicks(fnIn, fnTick), fnTick)
    /\ fnOut <= fnIn
    /\ fnOut >= 0

\* C13: sell_quantity applied to its own result returns that result.
C13_Idempotent == pc = "fn_done" => fnOut2 = fnOut

\* C14: get_alt_tick gives -k for "1" followed by k zeros and a decimal
\* point, and d for "0.0...01" whose 1 is the d-th decimal; "0.00100000"
\* gives 3, "1.00000000" gives 0 and "100.00000000" gives -2.
C14_TickDecoding ==
  pc # "fn_tick" =>
    /\ \A k \in 0..MaxStepZeros, pad \in {0, 8} :
         stepSize = TenPowerStep(k, pad) => fnTick = 0 - k
    /\ \A d \in 1..MaxStepDigits :
         stepSize \in {FractionStep(d, 0), FractionStep(d, 8 - d)} => fnTick = d
    /\ stepSize = <<"0",".","0","0","1","0","0","0","0","0">> => fnTick = 3
    /\ stepSize = <<"1",".","0","0","0","0","0","0","0","0">> => fnTick = 0
    /\ stepSize = <<"1","0","0",".","0","0","0","0","0","0","0","0">> => fnTick = 0 - 2

C14_Witness ==
  pc = "fn_done" /\ stepSize = <<"1","0","0",".","0","0","0","0","0","0","0","0">> /\ fnTick = 0 - 2

\* C15: a TradeLog is created, then marked ordered at most once and only
\* once the exchange returned an order, then marked complete at most once and
\* only after wait_for_order returned a FILLED status, whose
\* cummulativeQuoteQty is the value recorded.
C15_TradeLogLifecycle ==
  [][ /\ tlState' # tlState =>
           \/ tlState = "none" /\ tlState' = "created"
           \/ tlState = "created" /\ tlState' = "ordered" /\ order # NoneVal
           \/ /\ tlState = "ordered" /\ tlState' = "complete"
              /\ AfterWait /\ stat = "FILLED" /\ tlQuote' = statQ
           \/ tlState' = "none" /\ pc' = "retry_loop"
      /\ nOrdered' # nOrdered =>
           (tlState = "created" /\ tlState' = "ordered" /\ nOrdered' = nOrdered + 1)
      /\ nComplete' # nComplete =>
           (tlState = "ordered" /\ tlState' = "complete" /\ nComplete' = nComplete + 1)
      /\ tlQuote' # tlQuote => tlState' = "complete" ]_vars

C15_Witness == kind = "buy" /\ tlState = "complete" /\ tlQuote = 2 /\ nOrdered = 1

\* C16 as stated: every status fetched by wait_for_order is logged.
C16_Original == statLogs = fetches

\* C16: wait_for_order logs the status of its first successful fetch only;
\* the statuses fetched by the polling loop are not logged.
C16_FirstStatusLogged == statLogs = (IF fetches >= 1 THEN 1 ELSE 0)

C16_Witness == pc = "w_poll" /\ fetches = 3 /\ statLogs = 1

\* C17: between a failed attempt and the next attempt of the same retry call
\* a 1-second delay takes place.
C17_DelayBetweenAttempts ==
  [][ (calls' = calls + 1 /\ attempts >= 1) => delayed ]_vars

\* C18: once the buy quantity is computed, an error of the limit-buy
\* submission or of its price fetch stays in the submission loop: the same
\* quantity is sent again at a price fetched again until an order is
\* returned, and no attempt of retry is used up.
C18_SubmitErrorsAbsorbed ==
  [][ pc = "b_submit" =>
        /\ pc' \in {"b_submit", "b_ordered"}
        /\ attempts' = attempts
        /\ calls' = calls
        /\ outcome' = "running"
        /\ order_quantity' = order_quantity
        /\ submitted' # submitted => (submitted'[1] = order_quantity /\ submitted'[2] \in Prices)
        /\ pc' = "b_ordered" => (order' # NoneVal /\ submitted'[1] = order_quantity) ]_vars

C18_Witness == pc = "b_ordered" /\ submitTries >= 1 /\ attempts = 0

\* C19: when buy_alt or sell_alt finishes, every TradeLog marked ordered
\* during the call is also marked complete, and when an order is returned
\* exactly one TradeLog was marked ordered.
C19_NoHalfWrittenLog ==
  (Trade /\ pc = "done") =>
    /\ nOrdered = nComplete
    /\ result # NoneVal => nOrdered = 1

\* C20: when status fetches eventually succeed and the order is eventually
\* reported FILLED, wait_for_order eventually returns, whatever fetch errors
\* occur in its two loops, and it never raises.
C20_WaitReturns ==
  /\ (pc = "w_init") ~> (pc \in {"b_complete", "s_newbal"} /\ stat = "FILLED")
  /\ [](outcome = "running" /\ attempts = 0)

C20_Witness == pc = "s_newbal" /\ fetchErr /\ fetches = 2

====
